---- MODULE Spec2Model ----
(***************************************************************************)
(* Bear Chat transcript collector and summarizer (scripts/collector.js).   *)
(*                                                                         *)
(* Text is modelled as a sequence of characters, each character a string   *)
(* of its own: "a", " ", "\n".  Characters outside ASCII are written as    *)
(* named atoms: EmDash, Check, HeavyCheck.  All string operations of the   *)
(* code (split, join, match, includes, slice, toLowerCase) are computed    *)
(* on these sequences.                                                     *)
(*                                                                         *)
(* An instant (a JavaScript Date) is a record [min, sms]: the minutes      *)
(* since the epoch in UTC and the milliseconds within that minute.  The    *)
(* local time zone is a fixed offset tz, in minutes east of UTC.           *)
(***************************************************************************)
EXTENDS Integers, Sequences, FiniteSets, TLC

VARIABLES
    raw,        \* codec: the fetched messages handed to formatTranscript
    text,       \* codec: the transcript text (a file's content)
    decoded,    \* codec: the result of parseTranscript, or None
    msgs,       \* classifier: the decoded messages of one channel
    summary,    \* classifier: the result of summarizeChannel, or None
    formatted,  \* classifier: the result of formatSummary, or None
    tz,         \* the local time zone offset, minutes east of UTC
    now,        \* the clock
    range,      \* date window: the result of getDateRange, or None
    server,     \* run: the messages the chat server holds per channel
    logs,       \* run: chat-logs/<day>/<channel>.md
    sums,       \* run: chat-summaries/<day>/<channel>.md
    cRun,       \* run: the collector process
    sRun        \* run: the summarizer process

codecVars == <<raw, text, decoded>>
clsVars == <<msgs, summary, formatted>>
dateVars == <<tz, now, range>>
runVars == <<server, logs, sums, cRun, sRun>>
vars == <<raw, text, decoded, msgs, summary, formatted, tz, now, range,
          server, logs, sums, cRun, sRun>>

\* an optional value: None (null, a missing file, a step not yet taken) or Some(x)
None == <<>>
Some(x) == <<x>>

(***************************************************************************)
(* Characters                                                              *)
(***************************************************************************)
NL == "\n"
EmDash == "<emdash>"
Check == "<check>"
HeavyCheck == "<heavycheck>"
Digits == <<"0", "1", "2", "3", "4", "5", "6", "7", "8", "9">>
UpperCase == <<"A", "B", "C", "D", "E", "F", "G", "H", "I", "J", "K", "L", "M",
               "N", "O", "P", "Q", "R", "S", "T", "U", "V", "W", "X", "Y", "Z">>
LowerCase == <<"a", "b", "c", "d", "e", "f", "g", "h", "i", "j", "k", "l", "m",
               "n", "o", "p", "q", "r", "s", "t", "u", "v", "w", "x", "y", "z">>
\* \s of a regular expression, on the characters the model uses
WhiteSpace == {" ", NL, "\t", "\r"}
\* the characters "." of a regular expression does not match
LineTerminators == {NL, "\r"}

IsDigit(c) == \E i \in 1..10 : Digits[i] = c

\* String.prototype.toLowerCase, one character
LowerChar(c) ==
    IF \E i \in 1..26 : UpperCase[i] = c
    THEN LowerCase[CHOOSE i \in 1..26 : UpperCase[i] = c]
    ELSE c

\* String.prototype.toLowerCase
toLowerCase(s) == [i \in 1..Len(s) |-> LowerChar(s[i])]

\* whether sub occurs in s at position i (1-based)
OccursAt(s, sub, i) ==
    /\ i >= 1
    /\ i + Len(sub) - 1 <= Len(s)
    /\ \A j \in 1..Len(sub) : s[i + j - 1] = sub[j]

\* String.prototype.includes
includes(s, sub) == \E i \in 1..(Len(s) + 1) : OccursAt(s, sub, i)

\* String.prototype.startsWith
startsWith(s, prefix) == OccursAt(s, prefix, 1)

\* String.prototype.slice(0, n) and Array.prototype.slice(0, n), n >= 0
slice(s, n) == SubSeq(s, 1, IF Len(s) < n THEN Len(s) ELSE n)

\* String.prototype.split on one separator character: the pieces between the
\* separators, one more than there are separators
split(s, sep) ==
    LET at == {i \in 1..Len(s) : s[i] = sep}
        \* the position of the k-th separator; 0 and Len(s) + 1 bound the text
        pos(k) == IF k = 0 THEN 0
                  ELSE IF k > Cardinality(at) THEN Len(s) + 1
                  ELSE CHOOSE p \in at : Cardinality({q \in at : q < p}) = k - 1
    IN  [k \in 1..(Cardinality(at) + 1) |-> SubSeq(s, pos(k - 1) + 1, pos(k) - 1)]

\* Array.prototype.join with a one-character separator
RECURSIVE join(_, _)
join(lines, sep) ==
    IF Len(lines) = 0 THEN <<>>
    ELSE IF Len(lines) = 1 THEN lines[1]
    ELSE lines[1] \o <<sep>> \o join(Tail(lines), sep)

(***************************************************************************)
(* Dates                                                                   *)
(***************************************************************************)
MinutesPerDay == 1440

\* the proleptic Gregorian date of a day number (days since 1970-01-01), as
\* Date.prototype.toISOString computes its date part
CivilFromDays(days) ==
    LET z == days + 719468
        era == z \div 146097
        doe == z - era * 146097
        yoe == (doe - doe \div 1460 + doe \div 36524 - doe \div 146096) \div 365
        doy == doe - (365 * yoe + yoe \div 4 - yoe \div 100)
        mp == (5 * doy + 2) \div 153
        d == doy - (153 * mp + 2) \div 5 + 1
        m == IF mp < 10 THEN mp + 3 ELSE mp - 9
        y == yoe + era * 400 + (IF m <= 2 THEN 1 ELSE 0)
    IN  [y |-> y, m |-> m, d |-> d]

\* the day number of a Gregorian date: how the model writes its instants
DaysFromCivil(y, m, d) ==
    LET yy == IF m <= 2 THEN y - 1 ELSE y
        era == yy \div 400
        yoe == yy - era * 400
        doy == (153 * (IF m > 2 THEN m - 3 ELSE m + 9) + 2) \div 5 + d - 1
        doe == yoe * 365 + yoe \div 4 - yoe \div 100 + doy
    IN  era * 146097 + doe - 719468

Pad2(n) == <<Digits[((n \div 10) % 10) + 1], Digits[(n % 10) + 1]>>
Pad4(n) == Pad2(n \div 100) \o Pad2(n % 100)

\* a date as YYYY-MM-DD
FormatDate(c) == Pad4(c.y) \o <<"-">> \o Pad2(c.m) \o <<"-">> \o Pad2(c.d)

\* new Date(y, m, d, h, mi) in the zone at offset off
LocalInstant(y, m, d, h, mi, off) ==
    [min |-> DaysFromCivil(y, m, d) * MinutesPerDay + h * 60 + mi - off, sms |-> 0]

\* date.toISOString().split('T')[0]: the calendar date in UTC
IsoDate(t) == FormatDate(CivilFromDays(t.min \div MinutesPerDay))

\* the local calendar day (a day number) of an instant
LocalDay(t, off) == (t.min + off) \div MinutesPerDay

\* Date.prototype.setHours(h, mi, 0, 0): the local day kept
setHours(t, h, mi, off) ==
    [min |-> LocalDay(t, off) * MinutesPerDay + h * 60 + mi - off, sms |-> 0]

\* date.setDate(date.getDate() - 1): the local time of day kept
setDatePrevious(t) == [t EXCEPT !.min = t.min - MinutesPerDay]

\* toLocaleTimeString('pl-PL', {hour: '2-digit', minute: '2-digit'})
toLocaleTimeString(t, off) ==
    LET m == (t.min + off) % MinutesPerDay
    IN  Pad2(m \div 60) \o <<":">> \o Pad2(m % 60)

\* getDateRange, with the clock and the zone it reads
getDateRange(t, off) ==
    LET today3AM == setHours(t, 3, 0, off)
        yesterday345PM == setHours(setDatePrevious(today3AM), 3, 45, off)
    IN  [after |-> yesterday345PM,
         before |-> today3AM,
         dateStr |-> IsoDate(yesterday345PM)]

(***************************************************************************)
(* Transcript codec                                                        *)
(***************************************************************************)
\* msg.displayName || msg.userId: an absent or empty name is <<>>
AuthorOf(msg) == IF msg.displayName # <<>> THEN msg.displayName ELSE msg.userId

\* the header line of one message
HeaderLine(msg, off) ==
    <<"#", "#", "#", " ">> \o toLocaleTimeString(msg.createdAt, off)
        \o <<" ", EmDash, " ">> \o AuthorOf(msg)

\* the lines formatTranscript pushes for the messages
RECURSIVE MessageLines(_, _)
MessageLines(messages, off) ==
    IF messages = <<>> THEN <<>>
    ELSE <<HeaderLine(Head(messages), off), <<>>, Head(messages).content, <<>>>>
             \o MessageLines(Tail(messages), off)

\* formatTranscript, with the clock and the zone it reads
formatTranscript(messages, channel, t, off) ==
    join(<<(<<"#", " ">> \o channel \o <<" ", EmDash, " ">> \o IsoDate(t)), <<>>>>
             \o MessageLines(messages, off), NL)

\* line.match(/^### (\d{2}:\d{2}) <emdash> (.+)$/)
headerMatch(line) ==
    /\ Len(line) >= 13
    /\ OccursAt(line, <<"#", "#", "#", " ">>, 1)
    /\ IsDigit(line[5]) /\ IsDigit(line[6])
    /\ line[7] = ":"
    /\ IsDigit(line[8]) /\ IsDigit(line[9])
    /\ OccursAt(line, <<" ", EmDash, " ">>, 10)
    /\ \A i \in 13..Len(line) : line[i] \notin LineTerminators

\* a faulty variant of IsContentLine that keeps title lines
IsContentLine_KeepTitle(currentMsg, line) == currentMsg # <<>>

\* currentMsg && !line.startsWith('# ')
IsContentLine(currentMsg, line) ==
    currentMsg # <<>> /\ ~startsWith(line, <<"#", " ">>)

\* the loop of parseTranscript over the lines from i on: st is <<messages,
\* currentMsg>>, currentMsg being <<>> for null and <<m>> for an open message
RECURSIVE ParseLoop(_, _, _, _)
ParseLoop(lines, i, messages, currentMsg) ==
    IF i > Len(lines)
    THEN messages \o currentMsg
    ELSE LET line == lines[i] IN
         IF headerMatch(line)
         THEN ParseLoop(lines, i + 1, messages \o currentMsg,
                        <<[time |-> SubSeq(line, 5, 9),
                           author |-> SubSeq(line, 13, Len(line)),
                           content |-> <<>>]>>)
         ELSE IF IsContentLine(currentMsg, line)
         THEN ParseLoop(lines, i + 1, messages,
                        <<[currentMsg[1] EXCEPT !.content =
                              @ \o (IF @ # <<>> THEN <<NL>> ELSE <<>>) \o line]>>)
         ELSE ParseLoop(lines, i + 1, messages, currentMsg)

parseTranscript(content) == ParseLoop(split(content, NL), 1, <<>>, <<>>)

(***************************************************************************)
(* The codec on its own: a list of fetched messages is formatted, or a     *)
(* file of any provenance is found on disk, and the text is parsed.        *)
(***************************************************************************)
MaxCodecMsgs == 3
MaxLines == 4

\* the instants the clock is read at: around 2024-03-15 and a year's end
Instants(off) ==
    {LocalInstant(2024, 3, 15, 0, 30, off), LocalInstant(2024, 3, 15, 3, 0, off),
     LocalInstant(2024, 3, 15, 10, 0, off), LocalInstant(2024, 3, 1, 2, 59, off),
     LocalInstant(2025, 1, 1, 3, 15, off),
     [LocalInstant(2024, 3, 15, 23, 59, off) EXCEPT !.sms = 59999]}

Msg(h, mi, userId, displayName, content) ==
    [createdAt |-> LocalInstant(2024, 3, 14, h, mi, 60),
     userId |-> userId, displayName |-> displayName, content |-> content]

\* fetched messages: plain, empty, multi-line, and content that looks like a
\* header or a title
RawPool ==
    {Msg(9, 5, <<"u", "1">>, <<"b", "o", "b">>, <<"h", "i">>),
     Msg(23, 59, <<"u", "2">>, <<>>, <<>>),
     Msg(10, 0, <<"u", "3">>, <<"e", "v", "e">>, <<"a", NL, "b">>),
     Msg(10, 1, <<"u", "1">>, <<"b", "o", "b">>, <<"#", "#", "#", " ", "1", "1", ":", "1", "1", " ", EmDash, " ", "e", "v", "e">>),
     Msg(10, 2, <<"u", "1">>, <<"b", "o", "b">>, <<"#", " ", "x">>)}

SeqsUpTo(S, n) == UNION {[1..k -> S] : k \in 0..n}

\* the lines of a file that formatTranscript need not have written: a header,
\* headers that lack a digit, an author or end in a carriage return, a title,
\* an empty line and plain lines
LinePool ==
    {<<"#", "#", "#", " ", "1", "0", ":", "0", "0", " ", EmDash, " ", "b", "o", "b">>,
     <<"#", "#", "#", " ", "9", ":", "0", "0", " ", EmDash, " ", "b", "o", "b">>,
     <<"#", "#", "#", " ", "1", "0", ":", "0", "0", " ", EmDash, " ">>,
     <<"#", "#", "#", " ", "1", "0", ":", "0", "0", " ", EmDash, " ", "b", "o", "b", "\r">>,
     <<"#", " ", "x">>, <<>>, <<"h", "i">>, <<"#", "x">>}

CodecChannel == <<"g", "e", "n", "e", "r", "a", "l">>

InitCodec ==
    /\ raw = None
    /\ text = None
    /\ decoded = None
    /\ tz \in {0, 60}
    /\ now = LocalInstant(2024, 3, 15, 3, 0, 60)
    /\ msgs = <<>> /\ summary = None /\ formatted = None
    /\ range = None
    /\ server = <<>> /\ logs = <<>> /\ sums = <<>> /\ cRun = None /\ sRun = None

\* the server answers with a list of messages
Fetch ==
    /\ raw = None
    /\ text = None
    /\ \E ms \in SeqsUpTo(RawPool, MaxCodecMsgs) : raw' = Some(ms)
    /\ UNCHANGED <<text, decoded, clsVars, dateVars, runVars>>

\* the collector formats the fetched messages
Format ==
    /\ raw # None
    /\ text = None
    /\ text' = Some(formatTranscript(raw[1], CodecChannel, now, tz))
    /\ UNCHANGED <<raw, decoded, clsVars, dateVars, runVars>>

\* a transcript file the collector did not write
Foreign ==
    /\ raw = None
    /\ text = None
    /\ \E ls \in SeqsUpTo(LinePool, MaxLines) : text' = Some(join(ls, NL))
    /\ UNCHANGED raw
    /\ UNCHANGED <<decoded, clsVars, dateVars, runVars>>

\* the summarizer parses the text
Parse ==
    /\ text # None
    /\ decoded = None
    /\ decoded' = Some(parseTranscript(text[1]))
    /\ UNCHANGED <<raw, text, clsVars, dateVars, runVars>>

NextCodec == Fetch \/ Format \/ Foreign \/ Parse

SpecCodec == InitCodec /\ [][NextCodec]_vars

\* content is a single line not beginning with "### " or "# "
PlainContent(c) ==
    /\ ~includes(c, <<NL>>)
    /\ ~startsWith(c, <<"#", "#", "#", " ">>)
    /\ ~startsWith(c, <<"#", " ">>)

\* C1: decoding the text formatTranscript produced returns a list of the same
\* length whose i-th message equals the i-th input message on time, author and
\* content, when every content is a single line not beginning with "### " or "# "
C1_RoundTrip ==
    (/\ raw # None
     /\ decoded # None
     /\ \A i \in 1..Len(raw[1]) : PlainContent(raw[1][i].content))
    => /\ Len(decoded[1]) = Len(raw[1])
       /\ \A i \in 1..Len(raw[1]) :
            /\ decoded[1][i].time = toLocaleTimeString(raw[1][i].createdAt, tz)
            /\ decoded[1][i].author = AuthorOf(raw[1][i])
            /\ decoded[1][i].content = raw[1][i].content

\* the header pattern as the claims state it: "### HH:MM <emdash> rest", rest
\* being one or more characters up to the end of the line
HeaderPattern(line) ==
    /\ Len(line) > 12
    /\ SubSeq(line, 1, 4) = <<"#", "#", "#", " ">>
    /\ \A i \in {5, 6, 8, 9} : line[i] \in {Digits[d] : d \in 1..10}
    /\ line[7] = ":"
    /\ SubSeq(line, 10, 12) = <<" ", EmDash, " ">>
    /\ \A c \in LineTerminators : ~includes(SubSeq(line, 13, Len(line)), <<c>>)

\* the indices of the lines matching the header pattern, in line order
HeaderIndices(lines) ==
    SelectSeq([i \in 1..Len(lines) |-> i], LAMBDA i : HeaderPattern(lines[i]))

\* a list of lines without its leading empty lines
RECURSIVE DropLeadingEmpty(_)
DropLeadingEmpty(ls) ==
    IF ls # <<>> /\ Head(ls) = <<>> THEN DropLeadingEmpty(Tail(ls)) ELSE ls

\* the lines of the k-th message's body that do not begin with "# "
BodyLines(lines, hs, k) ==
    SelectSeq(SubSeq(lines, hs[k] + 1,
                     IF k < Len(hs) THEN hs[k + 1] - 1 ELSE Len(lines)),
              LAMBDA l : ~startsWith(l, <<"#", " ">>))

\* C10: parseTranscript emits exactly one message per line matching the header
\* pattern, in line order, the last open message included; its content is made
\* of the lines after its header that do not begin with "# " (lines before the
\* first header are discarded), and no decoded content contains a line
\* beginning with "# "
C10_ParseShape ==
    (text # None /\ decoded # None) =>
        LET lines == split(text[1], NL)
            hs == HeaderIndices(lines)
            out == decoded[1]
        IN  /\ Len(out) = Len(hs)
            /\ \A k \in 1..Len(hs) :
                 /\ <<"#", "#", "#", " ">> \o out[k].time \o <<" ", EmDash, " ">> \o out[k].author
                        = lines[hs[k]]
                 /\ out[k].content = join(DropLeadingEmpty(BodyLines(lines, hs, k)), NL)
                 /\ \A l \in 1..Len(split(out[k].content, NL)) :
                        ~startsWith(split(out[k].content, NL)[l], <<"#", " ">>)

\* a text with a line before its first header, a "# " line inside a message's
\* body and a last message no header closes, parsed to two messages
C10_Witness ==
    /\ text # None /\ decoded # None
    /\ Len(decoded[1]) = 2
    /\ LET lines == split(text[1], NL)
       IN  /\ ~HeaderPattern(lines[1])
           /\ \E i \in 2..Len(lines) :
                /\ startsWith(lines[i], <<"#", " ">>)
                /\ \E h \in 1..(i - 1) : HeaderPattern(lines[h])

(***************************************************************************)
(* Signal classifier and summary renderer                                  *)
(***************************************************************************)
\* the decision keywords, matched against the lower-cased content
IsDecision(content) ==
    \/ includes(content, <<"d", "e", "c", "y", "z", "j">>) \/ includes(content, <<"d", "e", "c", "i", "d", "e", "d">>)
    \/ includes(content, <<"l", "e", "t", "'", "s", " ">>) \/ includes(content, <<"w", "e", "'", "l", "l", " ">>)
    \/ includes(content, <<"s", "o", ":">>) \/ includes(content, <<"p", "l", "a", "n", ":">>)
    \/ includes(content, <<Check>>) \/ includes(content, <<HeavyCheck>>)

\* the action keywords, matched against the lower-cased content
IsAction(content) ==
    \/ includes(content, <<"t", "o", "d", "o">>) \/ includes(content, <<"t", "a", "s", "k">>)
    \/ includes(content, <<"a", "c", "t", "i", "o", "n">>) \/ includes(content, <<"i", "'", "l", "l", " ">>)
    \/ includes(content, <<"w", "i", "l", "l", " ">>) \/ includes(content, <<"s", "h", "o", "u", "l", "d", " ">>)

\* a faulty variant of IsQuestion that forgets the exclusion of links
IsQuestion_AnyMark(content) == includes(content, <<"?">>)

\* content.includes('?') && !content.includes('http'), on the lower-cased content
IsQuestion(content) == includes(content, <<"?">>) /\ ~includes(content, <<"h", "t", "t", "p">>)

\* a character [^\s\)] matches
IsUrlChar(c) == c \notin WhiteSpace /\ c # ")"

\* the length of the match of https?:\/\/ at position i, or 0
SchemeAt(s, i) ==
    IF OccursAt(s, <<"h", "t", "t", "p", "s", ":", "/", "/">>, i) THEN 8
    ELSE IF OccursAt(s, <<"h", "t", "t", "p", ":", "/", "/">>, i) THEN 7
    ELSE 0

\* the last position of the run of [^\s\)] that starts at position i
RECURSIVE RunEnd(_, _)
RunEnd(s, i) == IF i < Len(s) /\ IsUrlChar(s[i + 1]) THEN RunEnd(s, i + 1) ELSE i

\* the matches of /https?:\/\/[^\s\)]+/g from position i on, as <<first, last>>
RECURSIVE UrlSpans(_, _)
UrlSpans(s, i) ==
    IF i > Len(s) THEN <<>>
    ELSE LET p == SchemeAt(s, i) IN
         IF p > 0 /\ i + p <= Len(s) /\ IsUrlChar(s[i + p])
         THEN <<<<i, RunEnd(s, i + p)>>>> \o UrlSpans(s, RunEnd(s, i + p) + 1)
         ELSE UrlSpans(s, i + 1)

\* fullContent.match(/https?:\/\/[^\s\)]+/g), null being the empty list
urlMatch(s) ==
    LET spans == UrlSpans(s, 1)
    IN  [k \in 1..Len(spans) |-> SubSeq(s, spans[k][1], spans[k][2])]

\* a faulty variant of push that adds at the front
push_Front(arr, x) == <<x>> \o arr

\* Array.prototype.push
push(arr, x) == Append(arr, x)

\* urlMatch.forEach(url => links.push({who, url}))
RECURSIVE pushLinks(_, _, _)
pushLinks(links, who, urls) ==
    IF urls = <<>> THEN links
    ELSE pushLinks(push(links, [who |-> who, url |-> Head(urls)]), who, Tail(urls))

\* the body of the loop of summarizeChannel for one message
SummarizeStep(acc, msg) ==
    LET content == toLowerCase(msg.content)
        fullContent == msg.content
    IN  [decisions |->
            IF IsDecision(content)
            THEN push(acc.decisions, [who |-> msg.author, what |-> slice(fullContent, 200)])
            ELSE acc.decisions,
         actions |->
            IF IsAction(content)
            THEN push(acc.actions, [who |-> msg.author, what |-> slice(fullContent, 200)])
            ELSE acc.actions,
         links |-> pushLinks(acc.links, msg.author, urlMatch(fullContent)),
         questions |->
            IF IsQuestion(content)
            THEN push(acc.questions, [who |-> msg.author, what |-> slice(fullContent, 150)])
            ELSE acc.questions]

RECURSIVE SummarizeLoop(_, _, _)
SummarizeLoop(messages, i, acc) ==
    IF i > Len(messages) THEN acc
    ELSE SummarizeLoop(messages, i + 1, SummarizeStep(acc, messages[i]))

summarizeChannel(messages, channel) ==
    SummarizeLoop(messages, 1,
                  [decisions |-> <<>>, actions |-> <<>>, links |-> <<>>, questions |-> <<>>])

\* a count in decimal, as a template literal prints it
RECURSIVE numberToString(_)
numberToString(n) == IF n < 10 THEN <<Digits[n + 1]>> ELSE numberToString(n \div 10) \o <<Digits[(n % 10) + 1]>>

\* a faulty variant of TopEntries that takes the last n entries
TopEntries_Last(entries, n) ==
    SubSeq(entries, (IF Len(entries) > n THEN Len(entries) - n ELSE 0) + 1, Len(entries))

\* entries.slice(0, n)
TopEntries(entries, n) == slice(entries, n)

DecisionBullet(d) ==
    <<"-", " ", "*", "*">> \o d.who \o <<"*", "*", ":", " ">> \o slice(d.what, 150) \o <<".", ".", ".">>

LinkBullet(l) == <<"-", " ">> \o l.url \o <<" ", "(">> \o l.who \o <<")">>

QuestionBullet(q) == <<"-", " ", "*", "*">> \o q.who \o <<"*", "*", ":", " ">> \o q.what \o <<"?">>

formatSummary(channel, messages, s) ==
    join(<<(<<"#", " ">> \o channel \o <<" ", EmDash, " ">> \o <<"S", "u", "m", "m", "a", "r", "y">>),
           <<>>,
           (<<"*", "*", "M", "e", "s", "s", "a", "g", "e", "s", ":", "*", "*", " ">> \o numberToString(Len(messages))),
           <<>>,
           <<"-", "-", "-">>,
           <<>>>>
         \o (IF Len(s.decisions) > 0
             THEN <<<<"#", "#", " ", "K", "e", "y", " ", "D", "e", "c", "i", "s", "i", "o", "n", "s">>, <<>>>>
                    \o [k \in 1..Len(TopEntries(s.decisions, 5)) |->
                            DecisionBullet(TopEntries(s.decisions, 5)[k])]
                    \o <<<<>>>>
             ELSE <<>>)
         \o (IF Len(s.actions) > 0
             THEN <<<<"#", "#", " ", "A", "c", "t", "i", "o", "n", " ", "I", "t", "e", "m", "s">>, <<>>>>
                    \o [k \in 1..Len(TopEntries(s.actions, 5)) |->
                            DecisionBullet(TopEntries(s.actions, 5)[k])]
                    \o <<<<>>>>
             ELSE <<>>)
         \o (IF Len(s.links) > 0
             THEN <<<<"#", "#", " ", "L", "i", "n", "k", "s", " ", "S", "h", "a", "r", "e", "d">>, <<>>>>
                    \o [k \in 1..Len(TopEntries(s.links, 10)) |->
                            LinkBullet(TopEntries(s.links, 10)[k])]
                    \o <<<<>>>>
             ELSE <<>>)
         \o (IF Len(s.questions) > 0
             THEN <<<<"#", "#", " ", "O", "p", "e", "n", " ", "Q", "u", "e", "s", "t", "i", "o", "n", "s">>, <<>>>>
                    \o [k \in 1..Len(TopEntries(s.questions, 5)) |->
                            QuestionBullet(TopEntries(s.questions, 5)[k])]
                    \o <<<<>>>>
             ELSE <<>>),
         NL)

(***************************************************************************)
(* The classifier and the renderer on their own: the decoded messages of   *)
(* one channel are classified and the signals rendered.                    *)
(***************************************************************************)
MaxClsMsgs == 6

Decoded(time, author, content) == [time |-> time, author |-> author, content |-> content]

\* decoded messages: a decision over several lines that asks a question, a
\* decision with three links and a "?" in and after a URL, and an action with
\* an upper-case HTTP
ClsPool ==
    {Decoded(<<"0", "9", ":", "0", "5">>, <<"a", "l", "i", "c", "e">>, <<"p", "l", "a", "n", ":", NL, "-", " ", "a", "?", NL>>),
     Decoded(<<"0", "9", ":", "0", "7">>, <<"e", "v", "e">>, <<"s", "o", ":", " ", "h", "t", "t", "p", ":", "/", "/", "a", " ", "h", "t", "t", "p", "s", ":", "/", "/", "b", "?", "q", ")", " ", "(", "h", "t", "t", "p", ":", "/", "/", "c", ")", " ", "o", "k", "?", NL>>),
     Decoded(<<"0", "9", ":", "0", "8">>, <<"d", "a", "n">>, <<"H", "T", "T", "P", "?", " ", "t", "o", "d", "o", " ", "D", "e", "c", "i", "d", "e", "d">>)}

ClsChannel == <<"c", "o", "d", "i", "n", "g">>

InitClassify ==
    /\ msgs = None /\ summary = None /\ formatted = None
    /\ raw = None /\ text = None /\ decoded = None
    /\ tz = 60 /\ now = LocalInstant(2024, 3, 15, 3, 15, 60) /\ range = None
    /\ server = <<>> /\ logs = <<>> /\ sums = <<>> /\ cRun = None /\ sRun = None

\* the transcript of a channel has been decoded
Decode ==
    /\ msgs = None
    /\ \E ms \in SeqsUpTo(ClsPool, MaxClsMsgs) : msgs' = Some(ms)
    /\ UNCHANGED <<summary, formatted, codecVars, dateVars, runVars>>

Summarize ==
    /\ msgs # None /\ summary = None
    /\ summary' = Some(summarizeChannel(msgs[1], ClsChannel))
    /\ UNCHANGED <<msgs, formatted, codecVars, dateVars, runVars>>

Render ==
    /\ summary # None /\ formatted = None
    /\ formatted' = Some(formatSummary(ClsChannel, msgs[1], summary[1]))
    /\ UNCHANGED <<msgs, summary, codecVars, dateVars, runVars>>

NextClassify == Decode \/ Summarize \/ Render

SpecClassify == InitClassify /\ [][NextClassify]_vars

Min(a, b) == IF a < b THEN a ELSE b

\* the section of a category: nothing when it is empty, else its heading and
\* one bullet for each of its first min(n, cap) entries, in their order
CappedSection(heading, entries, cap, Bullet(_)) ==
    IF entries = <<>> THEN <<>>
    ELSE <<heading, <<>>>>
           \o [k \in 1..Min(Len(entries), cap) |-> Bullet(entries[k])]
           \o <<<<>>>>

\* C5: the rendered summary holds, for each category, exactly min(n, cap)
\* bullets, cap being 5 for decisions, actions and questions and 10 for links,
\* and they are the first min(n, cap) entries of the category in their order
C5_CapIsPrefix ==
    formatted # None =>
        LET s == summary[1] IN
        formatted[1] =
            join(<<<<"#", " ", "c", "o", "d", "i", "n", "g", " ">> \o <<EmDash>> \o <<" ", "S", "u", "m", "m", "a", "r", "y">>, <<>>,
                   <<"*", "*", "M", "e", "s", "s", "a", "g", "e", "s", ":", "*", "*", " ">> \o numberToString(Len(msgs[1])), <<>>,
                   <<"-", "-", "-">>, <<>>>>
                 \o CappedSection(<<"#", "#", " ", "K", "e", "y", " ", "D", "e", "c", "i", "s", "i", "o", "n", "s">>, s.decisions, 5, DecisionBullet)
                 \o CappedSection(<<"#", "#", " ", "A", "c", "t", "i", "o", "n", " ", "I", "t", "e", "m", "s">>, s.actions, 5, DecisionBullet)
                 \o CappedSection(<<"#", "#", " ", "L", "i", "n", "k", "s", " ", "S", "h", "a", "r", "e", "d">>, s.links, 10, LinkBullet)
                 \o CappedSection(<<"#", "#", " ", "O", "p", "e", "n", " ", "Q", "u", "e", "s", "t", "i", "o", "n", "s">>, s.questions, 5, QuestionBullet),
                 NL)

\* a summary rendered from more than 5 decisions, the sixth unlike the fifth,
\* and more than 10 links
C5_Witness ==
    /\ formatted # None
    /\ Len(summary[1].decisions) > 5
    /\ summary[1].decisions[6] # summary[1].decisions[5]
    /\ Len(summary[1].links) > 10
    /\ summary[1].links[11] # summary[1].links[10]

\* the lists of a list, one after the other
RECURSIVE Concat(_)
Concat(ss) == IF ss = <<>> THEN <<>> ELSE Head(ss) \o Concat(Tail(ss))

\* the URLs of a content from position i on, in their order of appearance: a
\* URL starts at the first "http://" or "https://" that a character other than
\* white space and ")" follows, and runs up to the next white space or ")"
RECURSIVE UrlsInOrder(_, _)
UrlsInOrder(s, i) ==
    LET starts == {p \in i..Len(s) :
                     \E n \in {7, 8} :
                        /\ p + n <= Len(s)
                        /\ SubSeq(s, p, p + n - 1) \in { <<"h", "t", "t", "p", ":", "/", "/">>, <<"h", "t", "t", "p", "s", ":", "/", "/">> }
                        /\ s[p + n] \notin WhiteSpace \cup {")"}}
    IN  IF starts = {} THEN <<>>
        ELSE LET p == CHOOSE q \in starts : \A r \in starts : q <= r
                 stops == {e \in p..Len(s) : e = Len(s) \/ s[e + 1] \in WhiteSpace \cup {")"}}
                 e == CHOOSE q \in stops : \A r \in stops : q <= r
             IN  <<SubSeq(s, p, e)>> \o UrlsInOrder(s, e + 1)

\* C6: each of the four sequences of summarizeChannel lists its entries in the
\* order of their source messages; the links of one message appear in their
\* order of appearance in it, those of an earlier message before those of a
\* later one
C6_OrderPreserved ==
    summary # None =>
        LET s == summary[1]
            Excerpt(m, n) == [who |-> m.author, what |-> SubSeq(m.content, 1, Min(n, Len(m.content)))]
            Of(Matches(_), n) ==
                LET kept == SelectSeq(msgs[1], LAMBDA m : Matches(toLowerCase(m.content)))
                IN  [k \in 1..Len(kept) |-> Excerpt(kept[k], n)]
            LinksOf(m) ==
                LET urls == UrlsInOrder(m.content, 1)
                IN  [k \in 1..Len(urls) |-> [who |-> m.author, url |-> urls[k]]]
        IN  /\ s.decisions = Of(IsDecision, 200)
            /\ s.actions = Of(IsAction, 200)
            /\ s.questions = Of(IsQuestion, 150)
            /\ s.links = Concat([k \in 1..Len(msgs[1]) |-> LinksOf(msgs[1][k])])

\* signals of messages of several authors: two decisions, and the two links of
\* one message followed by those of a later one
C6_Witness ==
    /\ summary # None
    /\ \E i \in 2..Len(summary[1].decisions) :
          summary[1].decisions[i].who # summary[1].decisions[i - 1].who
    /\ Len(summary[1].links) >= 4
    /\ summary[1].links[1].url # summary[1].links[2].url
    /\ \E i \in 1..Len(msgs[1]) : IsQuestion(toLowerCase(msgs[1][i].content))
    /\ \E i \in 1..Len(msgs[1]) : \E j \in (i + 2)..Len(msgs[1]) :
          /\ msgs[1][i].author = <<"e", "v", "e">> /\ msgs[1][j].author = <<"e", "v", "e">>
          /\ msgs[1][i + 1].author = <<"a", "l", "i", "c", "e">>

\* "http" in any letter case
HasHttpAnyCase(s) ==
    \E i \in 1..Len(s) :
        /\ i + 3 <= Len(s)
        /\ s[i] \in {"h", "H"} /\ s[i + 1] \in {"t", "T"}
        /\ s[i + 2] \in {"t", "T"} /\ s[i + 3] \in {"p", "P"}

\* C7: a message yields a questions entry if and only if its content contains
\* "?" and does not contain "http" in any letter case
C7_QuestionRule ==
    summary # None =>
        LET asked == SelectSeq(msgs[1],
                               LAMBDA m : (\E i \in 1..Len(m.content) : m.content[i] = "?")
                                          /\ ~HasHttpAnyCase(m.content))
        IN  /\ Len(summary[1].questions) = Len(asked)
            /\ \A k \in 1..Len(asked) :
                 /\ summary[1].questions[k].who = asked[k].author
                 /\ summary[1].questions[k].what = SubSeq(asked[k].content, 1, Min(150, Len(asked[k].content)))

\* classified: a message with a "?" in and after a URL, one with "HTTP?" in
\* upper case, and one that asks a question, which alone is in questions
C7_Witness ==
    /\ summary # None
    /\ \E i, j, k \in 1..Len(msgs[1]) :
          /\ includes(msgs[1][i].content, <<"h", "t", "t", "p", "s", ":", "/", "/", "b", "?", "q">>)
          /\ includes(msgs[1][j].content, <<"H", "T", "T", "P", "?">>)
          /\ msgs[1][k].author = <<"a", "l", "i", "c", "e">>
    /\ Len(summary[1].questions) = 1
    /\ summary[1].questions[1].who = <<"a", "l", "i", "c", "e">>

(***************************************************************************)
(* The date window on its own: getDateRange at an instant, in a zone.      *)
(***************************************************************************)
\* the zones of the date window: from UTC-12 to UTC+14
DateOffsets == {-720, -480, -300, 0, 60, 120, 225, 240, 330, 540, 840}

InitDate ==
    /\ tz \in DateOffsets
    /\ now \in Instants(tz)
    /\ range = None
    /\ raw = None /\ text = None /\ decoded = None
    /\ msgs = None /\ summary = None /\ formatted = None
    /\ server = <<>> /\ logs = <<>> /\ sums = <<>> /\ cRun = None /\ sRun = None

GetDateRange ==
    /\ range = None
    /\ range' = Some(getDateRange(now, tz))
    /\ UNCHANGED <<tz, now, codecVars, clsVars, runVars>>

NextDate == GetDateRange

SpecDate == InitDate /\ [][NextDate]_vars

\* C4: before is 03:00:00.000 local time on the local calendar day of the
\* reference instant, after is 03:45:00.000 local time on the preceding local
\* day, and the label is the local calendar date in which after falls, the day
\* before the reference day, in every zone
C4_DateWindow ==
    range # None =>
        LET today == LocalDay(now, tz) IN
        /\ range[1].before = [min |-> today * MinutesPerDay + 3 * 60 - tz, sms |-> 0]
        /\ range[1].after = [min |-> (today - 1) * MinutesPerDay + 3 * 60 + 45 - tz, sms |-> 0]
        /\ range[1].dateStr = FormatDate(CivilFromDays(LocalDay(range[1].after, tz)))
        /\ range[1].dateStr = FormatDate(CivilFromDays(today - 1))

(***************************************************************************)
(* The two scripts at work: the collector and the summarizer run against   *)
(* one chat server and one file store while the clock advances.            *)
(*                                                                         *)
(* A directory of the store is None (absent) or Some(files), files mapping *)
(* each channel to None or Some(content).  The two scripts are cron jobs a *)
(* quarter of an hour apart: one runs at a time, and a script that starts  *)
(* finds the process of the other gone.  The output of a script is the     *)
(* list of its reports, one for each channel; for the claims about re-runs *)
(* a report of a write also holds what the file was before it (over).      *)
(***************************************************************************)
NumChannels == 3

AllChannels ==
    <<<<"g", "e", "n", "e", "r", "a", "l">>, <<"c", "o", "d", "i", "n", "g">>, <<"b", "e", "a", "r", "-", "a", "g", "e", "n", "c", "y">>, <<"b", "e", "a", "r", "s", "-", "o", "n", "l", "y">>, <<"b", "e", "r", "a", "m", "o", "n", "i", "u", "m">>,
      <<"c", "o", "n", "s", "c", "i", "o", "u", "s", "n", "e", "s", "s">>>>

\* the channels to collect: the first NumChannels of the list of the code
CHANNELS == SubSeq(AllChannels, 1, NumChannels)

\* the messages of the server: the first messages of one list, as many as the
\* channel's place in the list says
ServerMessages ==
    <<Msg(9, 5, <<"u", "1">>, <<"b", "o", "b">>, <<"p", "l", "a", "n", ":", " ", "a">>),
      Msg(9, 30, <<"u", "2">>, <<>>, <<"o", "k", "?">>),
      Msg(23, 59, <<"u", "3">>, <<"e", "v", "e">>, <<"s", "e", "e", " ", "h", "t", "t", "p", ":", "/", "/", "a">>),
      Msg(23, 59, <<"u", "1">>, <<"b", "o", "b">>, <<"t", "o", "d", "o">>)>>

ServerCounts == <<3, 2, 0, 4, 1, 3>>

InitServer == [i \in 1..Len(CHANNELS) |-> SubSeq(ServerMessages, 1, ServerCounts[i])]

\* the instants of the run, in order: after midnight, the collector's and the
\* summarizer's hour, on 2024-03-15 local time
RunInstants(off) ==
    <<LocalInstant(2024, 3, 15, 0, 30, off), LocalInstant(2024, 3, 15, 3, 0, off),
      LocalInstant(2024, 3, 15, 3, 15, off)>>

\* the zones of the machines: UTC, and Europe/Warsaw in winter
RunOffsets == {0, 60}

\* the day folders the runs can name
Days == {FormatDate([y |-> 2024, m |-> 3, d |-> d]) : d \in 14..15}

NoFiles == [i \in 1..Len(CHANNELS) |-> None]

\* a script that has not run yet.  arg is the argument of the summarizer;
\* collected is, for the claims about the hand-off, the folder of the collector
\* run that had completed when the summarizer started
IdleRun == [phase |-> "idle", i |-> 0, dateStr |-> <<>>, files |-> <<>>, out |-> <<>>,
            arg |-> None, collected |-> None]

Init ==
    /\ tz \in RunOffsets
    /\ now = RunInstants(tz)[1]
    /\ server = InitServer
    /\ logs = [d \in Days |-> None]
    /\ sums = [d \in Days |-> None]
    /\ cRun = IdleRun
    /\ sRun = IdleRun
    /\ range = None
    /\ raw = None /\ text = None /\ decoded = None
    /\ msgs = None /\ summary = None /\ formatted = None

\* the clock advances
Tick ==
    /\ \E k \in 1..(Len(RunInstants(tz)) - 1) :
          now = RunInstants(tz)[k] /\ now' = RunInstants(tz)[k + 1]
    /\ UNCHANGED <<tz, range, server, logs, sums, cRun, sRun, codecVars, clsVars>>

\* fs.mkdirSync(dir, {recursive: true})
mkdirSync(store, dateStr) ==
    IF store[dateStr] = None THEN [store EXCEPT ![dateStr] = Some(NoFiles)] ELSE store

\* a faulty variant of writeFileSync that appends to the file
writeFileSync_Append(store, dateStr, i, data) ==
    [store EXCEPT ![dateStr] =
        Some([@[1] EXCEPT ![i] = IF @ = None THEN Some(data) ELSE Some(@[1] \o data)])]

\* fs.writeFileSync(path, data): the whole file replaced
writeFileSync(store, dateStr, i, data) ==
    [store EXCEPT ![dateStr] = Some([@[1] EXCEPT ![i] = Some(data)])]

\* a line of the output of a script: the channel, what became of it, the number
\* of its messages and, for a write, the file as it was before
Report(channel, result, n, over) ==
    [channel |-> channel, result |-> result, n |-> n, over |-> over]

\* a faulty variant of Caught that lets the error leave the loop
Caught_Rethrow(run, entry) ==
    [run EXCEPT !.out = Append(@, entry), !.phase = "fatal"]

\* an error caught in the loop: reported, and the loop goes on
Caught(run, entry) == [run EXCEPT !.out = Append(@, entry), !.i = @ + 1]

\* an iteration that ends without an error: reported, and the loop goes on
Done(run, entry) == [run EXCEPT !.out = Append(@, entry), !.i = @ + 1]

\* main of the collector up to its loop; mkdirSync may throw, which is fatal
CollectorStart ==
    /\ cRun.phase \in {"idle", "done", "fatal"}
    /\ sRun.phase # "loop"
    /\ LET r == getDateRange(now, tz)
           started == [cRun EXCEPT !.dateStr = r.dateStr, !.out = <<>>, !.i = 1]
       IN  \/ /\ cRun' = [started EXCEPT !.phase = "loop"]
              /\ logs' = mkdirSync(logs, r.dateStr)
           \/ /\ cRun' = [started EXCEPT !.phase = "fatal"]
              /\ UNCHANGED logs
    /\ sRun' = IdleRun
    /\ UNCHANGED <<tz, now, range, server, sums, codecVars, clsVars>>

\* one iteration of the loop of the collector, its try and its catch
CollectorChannel ==
    /\ cRun.phase = "loop"
    /\ cRun.i <= Len(CHANNELS)
    /\ LET i == cRun.i
           channel == CHANNELS[i]
           messages == server[i]
       IN  \/ \* fetchMessages rejects: a transport error, a status, a body
              /\ cRun' = Caught(cRun, Report(channel, "error", Len(messages), None))
              /\ UNCHANGED logs
           \/ /\ messages = <<>>
              /\ cRun' = Done(cRun, Report(channel, "empty", 0, None))
              /\ UNCHANGED logs
           \/ /\ messages # <<>>
              /\ logs' = writeFileSync(logs, cRun.dateStr, i,
                                       formatTranscript(messages, channel, now, tz))
              /\ cRun' = Done(cRun, Report(channel, "written", Len(messages),
                                           logs[cRun.dateStr][1][i]))
           \/ \* writeFileSync throws
              /\ messages # <<>>
              /\ cRun' = Caught(cRun, Report(channel, "error", Len(messages), None))
              /\ UNCHANGED logs
    /\ UNCHANGED <<tz, now, range, server, sums, sRun, codecVars, clsVars>>

\* the loop is over: "Collection complete."
CollectorFinish ==
    /\ cRun.phase = "loop"
    /\ cRun.i > Len(CHANNELS)
    /\ cRun' = [cRun EXCEPT !.phase = "done"]
    /\ UNCHANGED <<tz, now, range, server, logs, sums, sRun, codecVars, clsVars>>

\* getTargetDate: the argument, or today in UTC
getTargetDate(arg, t) == IF arg # None THEN arg[1] ELSE IsoDate(t)

\* fs.readdirSync(logsDir).filter(f => f.endsWith('.md')): the channels that
\* have a file, in the order of the directory
readdirSync(dir) ==
    SelectSeq([i \in 1..Len(CHANNELS) |-> i], LAMBDA i : dir[i] # None)

\* a faulty variant of ShouldSkip that skips a channel of three messages too
ShouldSkip_AtMostThree(messages) == Len(messages) <= 3

\* messages.length < 3
ShouldSkip(messages) == Len(messages) < 3

\* main of the summarizer up to its loop; mkdirSync may throw, which is fatal
SummarizerStart ==
    /\ sRun.phase \in {"idle", "done", "fatal", "nologs"}
    /\ cRun.phase # "loop"
    /\ \E arg \in {None} \cup {Some(d) : d \in Days} :
          LET dateStr == getTargetDate(arg, now)
              started == [sRun EXCEPT !.dateStr = dateStr, !.out = <<>>, !.i = 1,
                                      !.files = <<>>, !.arg = arg,
                                      !.collected = IF cRun.phase = "done"
                                                    THEN Some(cRun.dateStr)
                                                    ELSE None]
          IN  \/ /\ logs[dateStr] = None
                 /\ sRun' = [started EXCEPT !.phase = "nologs"]
                 /\ UNCHANGED sums
              \/ /\ logs[dateStr] # None
                 /\ sRun' = [started EXCEPT !.phase = "loop",
                                            !.files = readdirSync(logs[dateStr][1])]
                 /\ sums' = mkdirSync(sums, dateStr)
              \/ /\ logs[dateStr] # None
                 /\ sRun' = [started EXCEPT !.phase = "fatal"]
                 /\ UNCHANGED sums
    /\ cRun' = IdleRun
    /\ UNCHANGED <<tz, now, range, server, logs, codecVars, clsVars>>

\* one iteration of the loop of the summarizer, its try and its catch
SummarizerFile ==
    /\ sRun.phase = "loop"
    /\ sRun.i <= Len(sRun.files)
    /\ LET i == sRun.files[sRun.i]
           channel == CHANNELS[i]
           content == logs[sRun.dateStr][1][i][1]
           messages == parseTranscript(content)
           n == Len(messages)
       IN  \/ \* readFileSync throws
              /\ sRun' = Caught(sRun, Report(channel, "error", n, None))
              /\ UNCHANGED sums
           \/ /\ ShouldSkip(messages)
              /\ sRun' = Done(sRun, Report(channel, "skip", n, None))
              /\ UNCHANGED sums
           \/ /\ ~ShouldSkip(messages)
              /\ sums' = writeFileSync(sums, sRun.dateStr, i,
                            formatSummary(channel, messages,
                                          summarizeChannel(messages, channel)))
              /\ sRun' = Done(sRun, Report(channel, "written", n,
                                           sums[sRun.dateStr][1][i]))
           \/ \* writeFileSync throws
              /\ ~ShouldSkip(messages)
              /\ sRun' = Caught(sRun, Report(channel, "error", n, None))
              /\ UNCHANGED sums
    /\ UNCHANGED <<tz, now, range, server, logs, cRun, codecVars, clsVars>>

\* the loop is over: "Summarization complete."
SummarizerFinish ==
    /\ sRun.phase = "loop"
    /\ sRun.i > Len(sRun.files)
    /\ sRun' = [sRun EXCEPT !.phase = "done"]
    /\ UNCHANGED <<tz, now, range, server, logs, sums, cRun, codecVars, clsVars>>

Next ==
    \/ Tick
    \/ CollectorStart \/ CollectorChannel \/ CollectorFinish
    \/ SummarizerStart \/ SummarizerFile \/ SummarizerFinish

Spec == Init /\ [][Next]_vars

\* the file of a channel in a day's folder of a store, None without the folder
FileOf(store, d, i) == IF store[d] = None THEN None ELSE store[d][1][i]

\* C2: in the loop of the collector and in that of the summarizer, a channel
\* that fails does not stop the iteration: every channel is processed, in
\* order, one that is eligible and does not fail gets its output written, and
\* the run reaches its completion step; only an error outside the loop is fatal
C2_FailureIsolation ==
    /\ cRun.phase \in {"loop", "done"} =>
         /\ cRun.i <= Len(CHANNELS) + 1
         /\ Len(cRun.out) = cRun.i - 1
         /\ \A k \in 1..Len(cRun.out) :
              LET e == cRun.out[k] IN
              /\ e.channel = CHANNELS[k]
              /\ e.result \in (IF server[k] = <<>> THEN {"empty", "error"}
                               ELSE {"written", "error"})
              /\ e.result = "written" =>
                   \E t \in {RunInstants(tz)[j] : j \in 1..Len(RunInstants(tz))} :
                      FileOf(logs, cRun.dateStr, k)
                          = Some(formatTranscript(server[k], CHANNELS[k], t, tz))
    /\ cRun.phase = "done" => Len(cRun.out) = Len(CHANNELS)
    /\ cRun.phase = "fatal" => cRun.out = <<>>
    /\ sRun.phase \in {"loop", "done"} =>
         /\ sRun.i <= Len(sRun.files) + 1
         /\ Len(sRun.out) = sRun.i - 1
         /\ \A k \in 1..Len(sRun.out) :
              LET e == sRun.out[k] IN
              /\ e.channel = CHANNELS[sRun.files[k]]
              /\ e.result \in (IF e.n < 3 THEN {"skip", "error"} ELSE {"written", "error"})
              /\ e.result = "written" => FileOf(sums, sRun.dateStr, sRun.files[k]) # None
    /\ sRun.phase = "done" => Len(sRun.out) = Len(sRun.files)
    /\ sRun.phase = "fatal" => sRun.out = <<>>

\* a collector run that completed after its first channel failed, its second
\* was written and its third had no messages
C2_Witness ==
    /\ cRun.phase = "done"
    /\ Len(cRun.out) >= 3
    /\ cRun.out[1].result = "error"
    /\ cRun.out[2].result = "written"
    /\ cRun.out[3].result = "empty"

\* C3: a summarizer run writes the summary file of a channel if and only if
\* its transcript decodes to at least 3 messages and no error occurs; with
\* fewer than 3 its summary path is not written
C3_SkipRule ==
    [][/\ \A d \in Days : \A i \in 1..Len(CHANNELS) :
            FileOf(sums', d, i) # FileOf(sums, d, i) =>
               /\ sRun.phase = "loop" /\ sRun.dateStr = d
               /\ sRun.i <= Len(sRun.files) /\ sRun.files[sRun.i] = i
               /\ Len(parseTranscript(FileOf(logs, d, i)[1])) >= 3
       /\ (sRun.phase = "loop" /\ Len(sRun'.out) = Len(sRun.out) + 1) =>
             LET e == sRun'.out[Len(sRun'.out)]
                 i == sRun.files[sRun.i]
                 messages == parseTranscript(FileOf(logs, sRun.dateStr, i)[1])
             IN  /\ e.n = Len(messages)
                 /\ e.result = "error" \/ (e.result = "written" <=> Len(messages) >= 3)
                 /\ e.result = "written" =>
                       FileOf(sums', sRun.dateStr, i)
                           = Some(formatSummary(CHANNELS[i], messages,
                                                summarizeChannel(messages, CHANNELS[i])))
                 /\ e.result # "written" => sums' = sums
      ]_vars

\* a summarizer run that skipped a channel of 2 messages and wrote the summary
\* of a channel of 3
C3_Witness ==
    /\ sRun.phase = "done"
    /\ \E j, k \in 1..Len(sRun.out) :
          /\ sRun.out[j].n = 3 /\ sRun.out[j].result = "written"
          /\ FileOf(sums, sRun.dateStr, sRun.files[j]) # None
          /\ sRun.out[k].n = 2 /\ sRun.out[k].result = "skip"
          /\ FileOf(sums, sRun.dateStr, sRun.files[k]) = None

\* C8 as stated: a file once written keeps its content through every later run
\* over the same messages, whatever the instant of that run within the same
\* collection day
C8_Idempotent ==
    [][\A d \in Days : \A i \in 1..Len(CHANNELS) :
          /\ FileOf(logs, d, i) # None => FileOf(logs', d, i) = FileOf(logs, d, i)
          /\ FileOf(sums, d, i) # None => FileOf(sums', d, i) = FileOf(sums, d, i)
      ]_vars

\* the title line of a transcript written on the UTC date of instant t
TitleLine(channel, t) == <<"#", " ">> \o channel \o <<" ", EmDash, " ">> \o IsoDate(t)

\* C8, amended: a collector run over the same messages leaves a transcript
\* written on the same UTC date as it was, and a summarizer run over the same
\* transcript leaves the summary as it was; a write puts the whole new text in
\* the place of the file and appends nothing
C8_IdempotentSameUtcDate ==
    [][\A d \in Days : \A i \in 1..Len(CHANNELS) :
          /\ (/\ FileOf(logs, d, i) # None
              /\ split(FileOf(logs, d, i)[1], NL)[1] = TitleLine(CHANNELS[i], now))
             => FileOf(logs', d, i) = FileOf(logs, d, i)
          /\ FileOf(logs', d, i) # FileOf(logs, d, i) =>
                FileOf(logs', d, i) = Some(formatTranscript(server[i], CHANNELS[i], now, tz))
          /\ FileOf(sums, d, i) # None => FileOf(sums', d, i) = FileOf(sums, d, i)
      ]_vars

\* a collector run at the last instant that wrote a transcript over the one an
\* earlier run of the same UTC date had written, the content being the same
C8_Witness ==
    /\ cRun.phase = "done"
    /\ now = RunInstants(tz)[3]
    /\ \E k \in 1..Len(cRun.out) :
          /\ cRun.out[k].result = "written"
          /\ cRun.out[k].over # None
          /\ cRun.out[k].over = FileOf(logs, cRun.dateStr, k)

\* C9: a summarizer run started with no date argument after a collector run
\* targets the day folder that collector run wrote its transcripts to
C9_HandOff ==
    (sRun.phase # "idle" /\ sRun.arg = None /\ sRun.collected # None)
        => sRun.dateStr = sRun.collected[1]

====
